---- MODULE Spec2Model ----
(***************************************************************************)
(* A model of clickclick/console.py: the value formatter (format,          *)
(* format_time), the table renderer (print_table), the Action scope, the   *)
(* choice prompt, AliasedGroup.get_command and FloatRange.convert.         *)
(*                                                                         *)
(* Python values are tagged records [t, n, s]: t is the type tag, n the    *)
(* numeric payload, s the characters of a string.  Strings are sequences   *)
(* of one-character strings, so lengths, slices and padding are computed.  *)
(* Wall-clock time is counted in whole seconds.                            *)
(***************************************************************************)
EXTENDS Integers, Sequences, FiniteSets, TLC

VARIABLES
    \* format / format_time called on their own
    fop, fcol, fval, fnow, fres, fpc,
    \* print_table
    cols, rows, styles, titles, max_column_widths, tnow, tlater,
    colwidths, hdr, tout, terr, tpc,
    \* Action
    amsg_ok, errors, aout, araised, apropagated, apc,
    \* choice
    options, cout, selection, cresult, cpc,
    \* AliasedGroup.get_command
    commands, cmd_name, gres, gpc,
    \* FloatRange.convert
    rmin, rmax, rclamp, rvalue, rres, rpc

formatVars == <<fop, fcol, fval, fnow, fres, fpc>>
tableVars  == <<cols, rows, styles, titles, max_column_widths, tnow, tlater,
                colwidths, hdr, tout, terr, tpc>>
actionVars == <<amsg_ok, errors, aout, araised, apropagated, apc>>
choiceVars == <<options, cout, selection, cresult, cpc>>
groupVars  == <<commands, cmd_name, gres, gpc>>
rangeVars  == <<rmin, rmax, rclamp, rvalue, rres, rpc>>
vars == <<formatVars, tableVars, actionVars, choiceVars, groupVars, rangeVars>>

(***************************************************************************)
(* Bounds of the model                                                     *)
(***************************************************************************)
\* the wall-clock reading (seconds since the epoch) the calls start from
NowBase == 20000
\* oldest and furthest-future timestamps handed to format_time, relative to now
MaxElapsed == 7300
MaxFuture == 70
\* most rows of a table
MaxRows == 2
\* most progress() and error() calls in the body of an Action scope
MaxBodyCalls == 4
\* most options offered by choice, most prompts answered, largest |integer| entered
MaxOptions == 3
MaxPrompts == 3
MaxSelection == 4
\* longest command name and most commands of a group
MaxNameLen == 2
MaxCommands == 3
\* largest |number| handed to FloatRange
MaxFloat == 2

(***************************************************************************)
(* Python values                                                           *)
(***************************************************************************)
NoneVal == [t |-> "none", n |-> 0, s |-> <<>>]
BoolVal(b) == [t |-> "bool", n |-> IF b THEN 1 ELSE 0, s |-> <<>>]
IntVal(i) == [t |-> "int", n |-> i, s |-> <<>>]
FloatVal(i) == [t |-> "float", n |-> i, s |-> <<>>]
\* the float 1e99: a number no calendar time corresponds to
HugeFloat == [t |-> "hugefloat", n |-> 0, s |-> <<>>]
StrVal(chars) == [t |-> "str", n |-> 0, s |-> chars]
\* the empty list []: a value that is not hashable
ListVal == [t |-> "list", n |-> 0, s |-> <<>>]

\* isinstance(val, bool)
IsBool(v) == v.t = "bool"
\* isinstance(val, int): bool is a subclass of int
IsInt(v) == v.t \in {"int", "bool"}
\* isinstance(val, float)
IsFloat(v) == v.t \in {"float", "hugefloat"}
\* the values Python arithmetic accepts
IsNumber(v) == IsInt(v) \/ IsFloat(v)

Digits == <<"0", "1", "2", "3", "4", "5", "6", "7", "8", "9">>

RECURSIVE NatToStr(_)
\* str(n) for n >= 0
NatToStr(n) == IF n < 10 THEN <<Digits[n + 1]>>
               ELSE NatToStr(n \div 10) \o <<Digits[(n % 10) + 1]>>

\* str(i) for an int
IntToStr(i) == IF i < 0 THEN <<"-">> \o NatToStr(-i) ELSE NatToStr(i)

\* str(val)
PyStr(v) ==
    CASE v.t = "none" -> <<"N", "o", "n", "e">>
      [] v.t = "bool" -> IF v.n = 1 THEN <<"T", "r", "u", "e">>
                         ELSE <<"F", "a", "l", "s", "e">>
      [] v.t = "int" -> IntToStr(v.n)
      [] v.t = "float" -> IntToStr(v.n) \o <<".", "0">>
      [] v.t = "hugefloat" -> <<"1", "e", "+", "9", "9">>
      [] v.t = "str" -> v.s
      [] v.t = "list" -> <<"[", "]">>

\* whether len(val) is defined (it raises TypeError on a number or None)
HasLen(v) == v.t \in {"str", "list"}
\* len(val)
PyLen(v) == Len(v.s)

\* col.endswith('_time')
TimeSuffix == <<"_", "t", "i", "m", "e">>
EndsWithTime(col) ==
    /\ Len(col) >= Len(TimeSuffix)
    /\ SubSeq(col, Len(col) - Len(TimeSuffix) + 1, Len(col)) = TimeSuffix

(***************************************************************************)
(* format_time                                                             *)
(***************************************************************************)
SecondsPerHour == 3600
SecondsPerMinute == 60

\* round(a / d) for a >= 0, d > 0, ties to the even neighbour, as '{:.0f}' rounds
RoundHalfEven(a, d) ==
    LET q == a \div d
        r == a % d
    IN  IF 2 * r < d THEN q
        ELSE IF 2 * r > d THEN q + 1
        ELSE IF q % 2 = 0 THEN q ELSE q + 1

\* '{:.0f}'.format(s / d): the sign is kept even when the magnitude rounds to 0
FormatF0(s, d) ==
    IF s < 0 THEN <<"-">> \o NatToStr(RoundHalfEven(-s, d))
    ELSE NatToStr(RoundHalfEven(s, d))

\* ts == 0 (False == 0 and 0.0 == 0 are true)
EqualsZero(ts) == ts.t \in {"int", "bool", "float"} /\ ts.n = 0

\* datetime.datetime.fromtimestamp(ts) returns (it raises on a value that is
\* not a number and on a number out of the platform's range)
Convertible(ts) == ts.t \in {"int", "bool", "float"}

\* IsHours with the comparison not strict
IsHoursInclusive(s) == s >= SecondsPerHour

\* s > 3600
IsHours(s) == s > SecondsPerHour
\* s > 60
IsMinutes(s) == s > SecondsPerMinute

\* the string built from total_seconds() s
AgoString(s) ==
    LET t == IF IsHours(s) THEN FormatF0(s, SecondsPerHour) \o <<"h">>
             ELSE IF IsMinutes(s) THEN FormatF0(s, SecondsPerMinute) \o <<"m">>
             ELSE FormatF0(s, 1) \o <<"s">>
    IN  t \o <<" ", "a", "g", "o">>

\* format_time(ts), with datetime.datetime.now() reading `now`
format_time(ts, now) ==
    IF EqualsZero(ts) THEN StrVal(<<>>)
    ELSE IF ~Convertible(ts) THEN ts
    ELSE StrVal(AgoString(now - ts.n))

\* format without its boolean branch
formatNoBool(col, val, now) ==
    IF val.t = "none" THEN StrVal(<<>>)
    ELSE IF EndsWithTime(col) THEN format_time(val, now)
    ELSE StrVal(PyStr(val))

(***************************************************************************)
(* format                                                                  *)
(***************************************************************************)
\* format(col, val), with the clock reading format_time takes
format(col, val, now) ==
    IF val.t = "none" THEN StrVal(<<>>)
    ELSE IF EndsWithTime(col) THEN format_time(val, now)
    ELSE IF IsBool(val) THEN StrVal(IF val.n = 1 THEN <<"y", "e", "s">> ELSE <<"n", "o">>)
    ELSE StrVal(PyStr(val))

(***************************************************************************)
(* format and format_time called directly                                  *)
(***************************************************************************)
ColId == <<"i", "d">>
ColTime == <<"u", "p", "_", "t", "i", "m", "e">>
ColBareTime == <<"_", "t", "i", "m", "e">>
ColTimes == <<"t", "i", "m", "e", "s">>
\* column identifiers handed to format
FormatCols == {ColId, ColTime, ColBareTime, ColTimes}

\* timestamps whose elapsed time spans the seconds, minutes and hours buckets
Timestamps == {IntVal(t) : t \in (NowBase - MaxElapsed)..(NowBase + MaxFuture)}
\* values that are not calendar timestamps
OtherVals == {NoneVal, BoolVal(TRUE), BoolVal(FALSE), IntVal(0), IntVal(-7),
              FloatVal(0), FloatVal(12), HugeFloat,
              StrVal(<<>>), StrVal(<<"a", "b", "c">>), ListVal}
FormatVals == Timestamps \cup OtherVals

FormatIdle ==
    /\ fop = "none"
    /\ fcol = <<>>
    /\ fval = NoneVal
    /\ fnow = NowBase
    /\ fres = NoneVal
    /\ fpc = "idle"

\* a call format(col, val)
CallFormat ==
    /\ fpc = "idle"
    /\ \E col \in FormatCols, val \in FormatVals :
          /\ fop' = "format"
          /\ fcol' = col
          /\ fval' = val
          /\ fres' = format(col, val, fnow)
    /\ fpc' = "done"
    /\ UNCHANGED fnow
    /\ UNCHANGED <<tableVars, actionVars, choiceVars, groupVars, rangeVars>>

\* a call format_time(ts)
CallFormatTime ==
    /\ fpc = "idle"
    /\ \E ts \in FormatVals :
          /\ fop' = "format_time"
          /\ fcol' = <<>>
          /\ fval' = ts
          /\ fres' = format_time(ts, fnow)
    /\ fpc' = "done"
    /\ UNCHANGED fnow
    /\ UNCHANGED <<tableVars, actionVars, choiceVars, groupVars, rangeVars>>

(***************************************************************************)
(* print_table                                                             *)
(***************************************************************************)
DefaultMaxWidth == 1000
RecentBold == 900
RecentPlain == 3600

Min(a, b) == IF a < b THEN a ELSE b
Max(a, b) == IF a > b THEN a ELSE b

Lowers == <<"a", "b", "c", "d", "e", "f", "g", "h", "i", "j", "k", "l", "m",
            "n", "o", "p", "q", "r", "s", "t", "u", "v", "w", "x", "y", "z">>
Uppers == <<"A", "B", "C", "D", "E", "F", "G", "H", "I", "J", "K", "L", "M",
            "N", "O", "P", "Q", "R", "S", "T", "U", "V", "W", "X", "Y", "Z">>
IsLetter(ch) == \E k \in 1..Len(Lowers) : ch = Lowers[k] \/ ch = Uppers[k]
ToUpper(ch) == IF \E k \in 1..Len(Lowers) : ch = Lowers[k]
               THEN Uppers[CHOOSE k \in 1..Len(Lowers) : ch = Lowers[k]] ELSE ch
ToLower(ch) == IF \E k \in 1..Len(Uppers) : ch = Uppers[k]
               THEN Lowers[CHOOSE k \in 1..Len(Uppers) : ch = Uppers[k]] ELSE ch

\* col.title().replace('_', ' '): a letter that follows no letter is upper-cased,
\* every other letter lower-cased, then underscores become spaces
TitleCase(col) ==
    [k \in 1..Len(col) |->
        LET ch == col[k]
            cased == IF k = 1 \/ ~IsLetter(col[k - 1]) THEN ToUpper(ch) ELSE ToLower(ch)
        IN  IF cased = "_" THEN " " ELSE cased]

\* titles.get(col, col): the title whose length starts the column's width
MeasuredTitle(in, col) == IF col \in DOMAIN in.titles THEN in.titles[col] ELSE col
\* titles.get(col, col.title().replace('_', ' ')): the title the header shows
DisplayedTitle(in, col) == IF col \in DOMAIN in.titles THEN in.titles[col] ELSE TitleCase(col)
\* max_column_widths.get(col, 1000)
MaxWidthOf(in, col) ==
    IF col \in DOMAIN in.max_column_widths THEN in.max_column_widths[col]
    ELSE DefaultMaxWidth
\* row.get(col)
RowGet(row, col) == IF col \in DOMAIN row THEN row[col] ELSE NoneVal

\* the style dictionaries: keyword arguments of click.secho
EmptyStyle == [fg |-> "", bold |-> FALSE]
GreenBold == [fg |-> "green", bold |-> TRUE]
Green == [fg |-> "green", bold |-> FALSE]

\* key equality of a dict lookup: numbers compare by value (True == 1 == 1.0)
PyEq(a, b) ==
    IF a.t \in {"int", "bool", "float"} /\ b.t \in {"int", "bool", "float"}
    THEN a.n = b.n ELSE a = b

\* styles.get(val, {}) inside try/except: an unhashable val raises, and gets {}
StyleLookup(in, val) ==
    IF val.t = "list" THEN EmptyStyle
    ELSE IF \E k \in DOMAIN in.styles : PyEq(k, val)
         THEN in.styles[CHOOSE k \in DOMAIN in.styles : PyEq(k, val)]
         ELSE EmptyStyle

\* s[:k], Python's slice: a negative k counts from the end
PySlice(s, k) ==
    IF k >= 0 THEN SubSeq(s, 1, Min(k, Len(s)))
    ELSE SubSeq(s, 1, Max(Len(s) + k, 0))

\* Truncate keeping max characters, with no room left for the marker
TruncateNoRoom(s, m) == PySlice(s, m) \o <<".", ".">>

\* val[:max - 2] + '..'
Truncate(s, m) == PySlice(s, m - 2) \o <<".", ".">>

RECURSIVE Spaces(_)
Spaces(n) == IF n <= 0 THEN <<>> ELSE <<" ">> \o Spaces(n - 1)

\* ('{:' + align + str(width) + '}').format(text)
Pad(text, align, width) ==
    IF align = ">" THEN Spaces(width - Len(text)) \o text
    ELSE text \o Spaces(width - Len(text))

\* MeasureWidth with the cap left out
MeasureWidthUncapped(cw, length, maxw) == Max(cw, length)

\* min(max(colwidths[col], len(...)), max_column_widths.get(col, 1000))
MeasureWidth(cw, length, maxw) == Min(Max(cw, length), maxw)

\* the alignment of a cell that is not a non-null `_time` cell
NumberAlign(val) == IF IsInt(val) \/ IsFloat(val) THEN ">" ELSE ""

\* lines 95-96: every column starts at its title's length
InitialWidths(in) ==
    [col \in {in.cols[c] : c \in 1..Len(in.cols)} |-> Len(MeasuredTitle(in, col))]

RECURSIVE MeasureStep(_, _, _)
\* lines 98-101 from the k-th cell (row-major) on; len() of a value format
\* returned unconverted raises when that value is a number
MeasureStep(in, k, w) ==
    IF k > Len(in.rows) * Len(in.cols) THEN [ok |-> TRUE, w |-> w]
    ELSE LET col == in.cols[((k - 1) % Len(in.cols)) + 1]
             val == RowGet(in.rows[((k - 1) \div Len(in.cols)) + 1], col)
             f == format(col, val, in.now)
         IN  IF ~HasLen(f) THEN [ok |-> FALSE, w |-> w]
             ELSE MeasureStep(in, k + 1,
                     [w EXCEPT ![col] = MeasureWidth(@, PyLen(f), MaxWidthOf(in, col))])

\* lines 103-108: the header cells
Header(in, w) ==
    [c \in 1..Len(in.cols) |-> Pad(DisplayedTitle(in, in.cols[c]), "", w[in.cols[c]])]

\* lines 112-133 for one cell, the clock reading `now`
RenderCell(in, w, r, c, now) ==
    LET col == in.cols[c]
        val == RowGet(in.rows[r], col)
        isTime == val.t # "none" /\ EndsWithTime(col)
        diffDefined == IsNumber(val)
        recentBold == val.t = "hugefloat" \/ now - val.n < RecentBold
        recentPlain == val.t = "hugefloat" \/ now - val.n < RecentPlain
        style == IF isTime /\ diffDefined /\ recentBold THEN GreenBold
                 ELSE IF isTime /\ diffDefined /\ recentPlain THEN Green
                 ELSE StyleLookup(in, val)
        align == IF isTime THEN ">" ELSE NumberAlign(val)
        f == format(col, val, now)
        maxw == MaxWidthOf(in, col)
        text == IF Len(f.s) > maxw THEN Truncate(f.s, maxw) ELSE f.s
    IN  [ok |-> ~(isTime /\ ~diffDefined) /\ f.t = "str",
         row |-> r, col |-> col, raw |-> val, align |-> align, style |-> style,
         fmt |-> f.s, text |-> text, printed |-> Pad(text, align, w[col])]

RECURSIVE RenderStep(_, _, _, _, _)
\* lines 110-134 from the k-th cell on: the cells printed, until one raises
RenderStep(in, w, k, now, printed) ==
    IF k > Len(in.rows) * Len(in.cols) THEN [ok |-> TRUE, cells |-> printed]
    ELSE LET cell == RenderCell(in, w, ((k - 1) \div Len(in.cols)) + 1,
                                ((k - 1) % Len(in.cols)) + 1, now)
         IN  IF ~cell.ok THEN [ok |-> FALSE, cells |-> printed]
             ELSE RenderStep(in, w, k + 1, now, Append(printed, cell))

\* the values of a table's cells: a string longer than some caps, a boolean,
\* an integer that is also a timestamp 569 s old, a null, an out-of-range
\* float and a list
LongStr == StrVal(<<"a", "b", "c", "d", "e", "f", "g", "h">>)
TableVals == {LongStr, BoolVal(TRUE), IntVal(NowBase - 569), NoneVal, HugeFloat, ListVal}
\* the values of the cells of a table of more than one column
WideTableVals == {LongStr, IntVal(NowBase - 569)}
\* the configured max widths, and those of a table of more than one column
WidthVals == {0, 1, 2, 5}
WideWidthVals == {1, 5}
\* the seconds the clock advances between the measuring and the printing pass
Drifts == {0, 1}
\* a configured title
TitleName == <<"N", "a", "m", "e">>
ColLists == {<<ColId>>, <<ColTime>>, <<ColId, ColTime>>}
Red == [fg |-> "red", bold |-> FALSE]
\* styles given for a string and for the number 1
TableStyles == (LongStr :> Red) @@ (IntVal(1) :> Green)

ColSet(cs) == {cs[c] : c \in 1..Len(cs)}
\* the mappings from some of the columns to elements of S
PartialMaps(cs, S) == UNION {[D -> S] : D \in SUBSET ColSet(cs)}
SeqsUpTo(S, n) == UNION {[1..k -> S] : k \in 0..n}

TableInputs ==
    UNION {[cols : {cs},
            rows : SeqsUpTo(PartialMaps(cs, IF Len(cs) > 1 THEN WideTableVals ELSE TableVals),
                            MaxRows),
            styles : {TableStyles},
            titles : PartialMaps(cs, {TitleName}),
            max_column_widths : PartialMaps(cs, IF Len(cs) > 1 THEN WideWidthVals ELSE WidthVals),
            now : {NowBase},
            drift : Drifts] : cs \in ColLists}

TableIdle ==
    /\ cols = <<>>
    /\ rows = <<>>
    /\ styles = <<>>
    /\ titles = <<>>
    /\ max_column_widths = <<>>
    /\ tnow = NowBase
    /\ tlater = NowBase
    /\ colwidths = <<>>
    /\ hdr = <<>>
    /\ tout = <<>>
    /\ terr = ""
    /\ tpc = "idle"

\* a call print_table(cols, rows, styles, titles, max_column_widths)
PrintTable ==
    /\ tpc = "idle"
    /\ \E in \in TableInputs :
       \E m \in {MeasureStep(in, 1, InitialWidths(in))} :
       \E r \in {IF m.ok THEN RenderStep(in, m.w, 1, in.now + in.drift, <<>>)
                  ELSE [ok |-> FALSE, cells |-> <<>>]} :
          /\ cols' = in.cols
          /\ rows' = in.rows
          /\ styles' = in.styles
          /\ titles' = in.titles
          /\ max_column_widths' = in.max_column_widths
          /\ tnow' = in.now
          /\ tlater' = in.now + in.drift
          /\ colwidths' = m.w
          /\ hdr' = IF m.ok THEN Header(in, m.w) ELSE <<>>
          /\ tout' = r.cells
          /\ terr' = IF ~m.ok THEN "measure" ELSE IF ~r.ok THEN "render" ELSE ""
          /\ tpc' = IF m.ok /\ r.ok THEN "done" ELSE "error"
    /\ UNCHANGED <<formatVars, actionVars, choiceVars, groupVars, rangeVars>>

(***************************************************************************)
(* Action                                                                  *)
(* aout is what the helpers action, ok, error and click.secho(' .') have   *)
(* written, in order: one record per call, fn naming the helper.           *)
(***************************************************************************)
ActionEvent == [fn |-> "action", arg |-> "msg"]
OkEvent == [fn |-> "ok", arg |-> " OK"]
ErrorEvent(msg) == [fn |-> "error", arg |-> msg]
ProgressEvent == [fn |-> "secho", arg |-> " ."]
ExceptionEvent == ErrorEvent("EXCEPTION OCCURRED: exc_val")
\* the messages the body hands to error()
ErrorMsgs == {"failed", "OK"}

ActionIdle ==
    /\ amsg_ok = TRUE
    /\ errors = <<>>
    /\ aout = <<>>
    /\ araised = FALSE
    /\ apropagated = FALSE
    /\ apc = "none"

\* Action(msg, **kwargs); fmt_ok tells whether msg.format(**kwargs) will succeed
ActionNew ==
    /\ apc = "none"
    /\ \E fmt_ok \in BOOLEAN : amsg_ok' = fmt_ok
    /\ errors' = <<>>
    /\ apc' = "new"
    /\ UNCHANGED <<aout, araised, apropagated>>
    /\ UNCHANGED <<formatVars, tableVars, choiceVars, groupVars, rangeVars>>

\* __enter__: action(self.msg, **self.msg_args); when the message cannot be
\* formatted the call raises, the body does not run and __exit__ is not called
ActionEnter ==
    /\ apc = "new"
    /\ IF amsg_ok
       THEN /\ aout' = Append(aout, ActionEvent)
            /\ apc' = "body"
            /\ UNCHANGED <<araised, apropagated>>
       ELSE /\ araised' = TRUE
            /\ apropagated' = TRUE
            /\ apc' = "done"
            /\ UNCHANGED aout
    /\ UNCHANGED <<amsg_ok, errors>>
    /\ UNCHANGED <<formatVars, tableVars, choiceVars, groupVars, rangeVars>>

\* self.errors after error(msg)
ErrorsAfter(errs, msg) == Append(errs, msg)

\* Action.error(msg), called in the body
ActionError ==
    /\ apc = "body"
    /\ Len(aout) <= MaxBodyCalls
    /\ \E msg \in ErrorMsgs :
          /\ aout' = Append(aout, ErrorEvent(msg))
          /\ errors' = ErrorsAfter(errors, msg)
    /\ UNCHANGED <<amsg_ok, araised, apropagated, apc>>
    /\ UNCHANGED <<formatVars, tableVars, choiceVars, groupVars, rangeVars>>

\* Action.progress(), called in the body
ActionProgress ==
    /\ apc = "body"
    /\ Len(aout) <= MaxBodyCalls
    /\ aout' = Append(aout, ProgressEvent)
    /\ UNCHANGED <<amsg_ok, errors, araised, apropagated, apc>>
    /\ UNCHANGED <<formatVars, tableVars, choiceVars, groupVars, rangeVars>>

\* ExitOutput that does not look at self.errors
ExitOutputIgnoringErrors(exc, errs) ==
    IF ~exc THEN <<OkEvent>> ELSE <<ExceptionEvent>>

\* what __exit__ writes: exc tells whether exc_type is not None
ExitOutput(exc, errs) ==
    IF ~exc THEN (IF errs = <<>> THEN <<OkEvent>> ELSE <<>>)
    ELSE <<ExceptionEvent>>

\* __exit__ returns None, which is falsy: never
ExitSuppresses == FALSE

\* the body ends, normally or by raising, and __exit__ runs
ActionExit ==
    /\ apc = "body"
    /\ \E exc \in BOOLEAN :
          /\ araised' = exc
          /\ aout' = aout \o ExitOutput(exc, errors)
          /\ apropagated' = (exc /\ ~ExitSuppresses)
    /\ apc' = "done"
    /\ UNCHANGED <<amsg_ok, errors>>
    /\ UNCHANGED <<formatVars, tableVars, choiceVars, groupVars, rangeVars>>

(***************************************************************************)
(* choice                                                                  *)
(* An option is [tuple |-> FALSE, value] or a pair [tuple |-> TRUE, value, *)
(* label].  cout is the lines printed; selection the integers entered.     *)
(***************************************************************************)
PlainOption(v) == [tuple |-> FALSE, value |-> v, label |-> v]
PairOption(v, l) == [tuple |-> TRUE, value |-> v, label |-> l]
OptionPool == {PlainOption("a"), PairOption("b", "B"), PairOption("c", "C")}

ChoiceIdle ==
    /\ options = <<>>
    /\ cout = <<>>
    /\ selection = <<>>
    /\ cresult = "nothing"
    /\ cpc = "idle"

\* lines 141-147: the prompt, then one numbered line per option
Listing(opts) ==
    <<"prompt">> \o [i \in 1..Len(opts) |-> <<i, opts[i].label>>]

\* choice(prompt, options) up to its first click.prompt
ChoiceCall ==
    /\ cpc = "idle"
    /\ \E opts \in SeqsUpTo(OptionPool, MaxOptions) :
          /\ options' = opts
          /\ cout' = Listing(opts)
    /\ cpc' = "prompt"
    /\ UNCHANGED <<selection, cresult>>
    /\ UNCHANGED <<formatVars, tableVars, actionVars, groupVars, rangeVars>>

\* whether options[i] raises IndexError, i a Python index (0-based, negative
\* indices counting from the end)
IndexRaises(opts, i) == i >= Len(opts) \/ i < -Len(opts)
\* options[i]
PyIndex(opts, i) == IF i >= 0 THEN opts[i + 1] ELSE opts[Len(opts) + i + 1]

\* lines 149-158: one turn of the loop, the user entering the integer k
ChoiceSelect ==
    /\ cpc = "prompt"
    /\ Len(selection) < MaxPrompts
    /\ \E k \in (-MaxSelection)..MaxSelection :
          /\ selection' = Append(selection, k)
          /\ IF IndexRaises(options, k - 1)
             THEN UNCHANGED <<cresult, cpc>>
             ELSE /\ cresult' = PyIndex(options, k - 1).value
                  /\ cpc' = "returned"
    /\ UNCHANGED <<options, cout>>
    /\ UNCHANGED <<formatVars, tableVars, actionVars, groupVars, rangeVars>>

(***************************************************************************)
(* AliasedGroup.get_command                                                *)
(* A command is identified with the name it is registered under.           *)
(***************************************************************************)
Letters == {"a", "b"}
Names == UNION {[1..k -> Letters] : k \in 0..MaxNameLen}

\* x.startswith(prefix)
StartsWith(x, prefix) == Len(prefix) <= Len(x) /\ SubSeq(x, 1, Len(prefix)) = prefix

CharIndex(ch) == CHOOSE k \in 1..Len(Lowers) : Lowers[k] = ch
\* x < y for strings
StrLess(x, y) ==
    \E k \in 1..(Len(y)) :
        /\ \A j \in 1..(k - 1) : j <= Len(x) /\ x[j] = y[j]
        /\ \/ k = Len(x) + 1
           \/ k <= Len(x) /\ CharIndex(x[k]) < CharIndex(y[k])

RECURSIVE SortedSeq(_)
\* sorted(S)
SortedSeq(S) ==
    IF S = {} THEN <<>>
    ELSE LET least == CHOOSE x \in S : \A y \in S \ {x} : StrLess(x, y)
         IN  <<least>> \o SortedSeq(S \ {least})

\* click.Group.list_commands: sorted(self.commands)
ListCommands(cmds) == SortedSeq(cmds)
\* click.Group.get_command: self.commands.get(cmd_name)
GroupGet(cmds, name) ==
    IF name \in cmds THEN [kind |-> "command", name |-> name, matches |-> <<>>]
    ELSE [kind |-> "none", name |-> <<>>, matches |-> <<>>]

\* [x for x in self.list_commands(ctx) if x.startswith(cmd_name)]
Matches(cmds, name) ==
    LET IsMatch(x) == StartsWith(x, name)
    IN  SelectSeq(ListCommands(cmds), IsMatch)

SeqRange(q) == {q[i] : i \in 1..Len(q)}

\* get_command without the exact lookup that comes first
get_command_prefix_only(cmds, name) ==
    LET matches == Matches(cmds, name)
    IN  IF matches = <<>> THEN [kind |-> "none", name |-> <<>>, matches |-> <<>>]
        ELSE IF Len(matches) = 1 THEN GroupGet(cmds, matches[1])
        ELSE [kind |-> "fail", name |-> <<>>, matches |-> SortedSeq(SeqRange(matches))]

\* get_command(ctx, cmd_name); kind "fail" is ctx.fail raising UsageError
get_command(cmds, name) ==
    LET rv == GroupGet(cmds, name)
        matches == Matches(cmds, name)
    IN  IF rv.kind # "none" THEN rv
        ELSE IF matches = <<>> THEN [kind |-> "none", name |-> <<>>, matches |-> <<>>]
        ELSE IF Len(matches) = 1 THEN GroupGet(cmds, matches[1])
        ELSE [kind |-> "fail", name |-> <<>>, matches |-> SortedSeq(SeqRange(matches))]

GroupIdle ==
    /\ commands = {}
    /\ cmd_name = <<>>
    /\ gres = [kind |-> "none", name |-> <<>>, matches |-> <<>>]
    /\ gpc = "idle"

\* a group with its commands registered
GroupNew ==
    /\ gpc = "idle"
    /\ \E cmds \in SUBSET (Names \ {<<>>}) :
          /\ Cardinality(cmds) <= MaxCommands
          /\ commands' = cmds
    /\ gpc' = "ready"
    /\ UNCHANGED <<cmd_name, gres>>
    /\ UNCHANGED <<formatVars, tableVars, actionVars, choiceVars, rangeVars>>

\* a call get_command(ctx, cmd_name)
GroupGetCommand ==
    /\ gpc = "ready"
    /\ \E name \in Names :
          /\ cmd_name' = name
          /\ gres' = get_command(commands, name)
    /\ gpc' = "done"
    /\ UNCHANGED commands
    /\ UNCHANGED <<formatVars, tableVars, actionVars, choiceVars, rangeVars>>

(***************************************************************************)
(* FloatRange                                                              *)
(* A float is [k |-> "num", v |-> i] or NaN; None is the unset bound.      *)
(***************************************************************************)
Num(i) == [k |-> "num", v |-> i]
NaN == [k |-> "nan", v |-> 0]
None == [k |-> "none", v |-> 0]
Floats == {Num(i) : i \in (-MaxFloat)..MaxFloat} \cup {NaN}
\* the text handed to convert: a float's, or text float() rejects
Texts == Floats \cup {[k |-> "bad", v |-> 0]}

\* a < b and a > b on floats: every comparison with NaN is false
FloatLess(a, b) == a.k = "num" /\ b.k = "num" /\ a.v < b.v
FloatGreater(a, b) == a.k = "num" /\ b.k = "num" /\ a.v > b.v

Returned(v) == [kind |-> "return", value |-> v, msg |-> ""]
Failed(msg) == [kind |-> "fail", value |-> None, msg |-> msg]

\* self.min is not None and rv < self.min
BelowMin(min, rv) == min.k # "none" /\ FloatLess(rv, min)
\* self.max is not None and rv > self.max
AboveMax(max, rv) == max.k # "none" /\ FloatGreater(rv, max)

\* Clamped with the edges swapped
ClampedSwapped(min, max, rv) ==
    IF BelowMin(min, rv) THEN max
    ELSE IF AboveMax(max, rv) THEN min
    ELSE None

\* lines 193-197: the value the clamp returns, None when it returns nothing
Clamped(min, max, rv) ==
    IF BelowMin(min, rv) THEN min
    ELSE IF AboveMax(max, rv) THEN max
    ELSE None

\* convert(value, param, ctx)
convert(min, max, clamp, value) ==
    IF value.k = "bad" THEN Failed("not a valid float")
    ELSE IF clamp /\ Clamped(min, max, value) # None
         THEN Returned(Clamped(min, max, value))
    ELSE IF BelowMin(min, value) \/ AboveMax(max, value)
         THEN IF min.k = "none" THEN Failed("bigger than the maximum")
              ELSE IF max.k = "none" THEN Failed("smaller than the minimum")
              ELSE Failed("not in the valid range")
    ELSE Returned(value)

RangeIdle ==
    /\ rmin = None
    /\ rmax = None
    /\ rclamp = FALSE
    /\ rvalue = None
    /\ rres = Failed("")
    /\ rpc = "idle"

\* FloatRange(min, max, clamp)
RangeNew ==
    /\ rpc = "idle"
    /\ \E min \in (Floats \ {NaN}) \cup {None}, max \in (Floats \ {NaN}) \cup {None},
          clamp \in BOOLEAN :
          /\ rmin' = min
          /\ rmax' = max
          /\ rclamp' = clamp
    /\ rpc' = "ready"
    /\ UNCHANGED <<rvalue, rres>>
    /\ UNCHANGED <<formatVars, tableVars, actionVars, choiceVars, groupVars>>

\* a call convert(value, param, ctx)
RangeConvert ==
    /\ rpc = "ready"
    /\ \E value \in Texts :
          /\ rvalue' = value
          /\ rres' = convert(rmin, rmax, rclamp, value)
    /\ rpc' = "done"
    /\ UNCHANGED <<rmin, rmax, rclamp>>
    /\ UNCHANGED <<formatVars, tableVars, actionVars, choiceVars, groupVars>>

(***************************************************************************)
(* Specifications: one per component, the others idle                      *)
(***************************************************************************)
Init ==
    /\ FormatIdle
    /\ TableIdle
    /\ ActionIdle
    /\ ChoiceIdle
    /\ GroupIdle
    /\ RangeIdle

FormatNext == CallFormat \/ CallFormatTime
TableNext == PrintTable
ActionNext == ActionNew \/ ActionEnter \/ ActionError \/ ActionProgress \/ ActionExit
ChoiceNext == ChoiceCall \/ ChoiceSelect
GroupNext == GroupNew \/ GroupGetCommand
RangeNext == RangeNew \/ RangeConvert

Next == FormatNext \/ TableNext \/ ActionNext \/ ChoiceNext \/ GroupNext \/ RangeNext

SpecFormat == Init /\ [][FormatNext]_vars
SpecTable == Init /\ [][TableNext]_vars
SpecAction == Init /\ [][ActionNext]_vars
SpecChoice == Init /\ [][ChoiceNext]_vars
SpecGroup == Init /\ [][GroupNext]_vars
SpecRange == Init /\ [][RangeNext]_vars

(***************************************************************************)
(* Properties                                                              *)
(***************************************************************************)
\* the arguments of the print_table call, as the operators above take them
TableCall ==
    [cols |-> cols, rows |-> rows, styles |-> styles, titles |-> titles,
     max_column_widths |-> max_column_widths, now |-> tnow, drift |-> tlater - tnow]

\* the measuring pass of print_table has run to its end
Measured == tpc \in {"done", "error"} /\ terr # "measure"

WidthAtLeastTitle(col) == colwidths[col] >= Len(DisplayedTitle(TableCall, col))
WidthAtMostMax(col) == colwidths[col] <= MaxWidthOf(TableCall, col)

\* C1 as stated: after the measuring pass every column's width is at least the
\* length of its displayed title and at most its max width (1000 by default).
C1_WidthBetweenTitleAndMax ==
    Measured => \A col \in ColSet(cols) : WidthAtLeastTitle(col) /\ WidthAtMostMax(col)

\* C1 amended: after the measuring pass the width of every column whose max
\* width is at least the length of its title lies between the two.
C1_WidthBetweenTitleAndMaxWhenTitleFits ==
    Measured =>
        \A col \in ColSet(cols) :
            MaxWidthOf(TableCall, col) >= Len(DisplayedTitle(TableCall, col))
                => WidthAtLeastTitle(col) /\ WidthAtMostMax(col)

\* C1 witness: a column whose cap (5) is above its title's length and below a
\* formatted value's length (8) ends at the cap.
C1_Witness ==
    /\ Measured
    /\ \E col \in ColSet(cols) :
          /\ col \in DOMAIN max_column_widths
          /\ max_column_widths[col] > Len(DisplayedTitle(TableCall, col))
          /\ \E r \in 1..Len(rows) : RowGet(rows[r], col) = LongStr
          /\ ~EndsWithTime(col)
          /\ colwidths[col] = max_column_widths[col]

\* C2 as stated: whatever the cells hold, print_table runs to completion,
\* printing every cell; a missing or null value prints as an empty cell and a
\* value that is no dictionary key gets the empty style.
C2_NeverRaisesOnCellData ==
    tpc # "idle" =>
        /\ tpc = "done"
        /\ Len(tout) = Len(rows) * Len(cols)
        /\ \A k \in 1..Len(tout) :
              /\ tout[k].raw = NoneVal => tout[k].text = <<>>
              /\ tout[k].raw = ListVal => tout[k].style = EmptyStyle

\* C3 as stated: every cell printed in a column with a configured max width
\* is at most that wide, and a formatted value longer than the max width is
\* printed as its first (max - 2) characters followed by '..'.
C3_PrintedCellWithinMax ==
    \A k \in 1..Len(tout) :
        tout[k].col \in DOMAIN max_column_widths =>
            LET maxw == max_column_widths[tout[k].col]
            IN  /\ Len(tout[k].printed) <= maxw
                /\ Len(tout[k].fmt) > maxw =>
                      tout[k].printed = SubSeq(tout[k].fmt, 1, maxw - 2) \o <<".", ".">>

\* C3 amended: the same, for the columns whose configured max width is at
\* least 2 (the length of the '..' marker).
C3_PrintedCellWithinMaxOfTwoOrMore ==
    \A k \in 1..Len(tout) :
        (tout[k].col \in DOMAIN max_column_widths /\ max_column_widths[tout[k].col] >= 2) =>
            LET maxw == max_column_widths[tout[k].col]
            IN  /\ Len(tout[k].printed) <= maxw
                /\ Len(tout[k].fmt) > maxw =>
                      tout[k].printed = SubSeq(tout[k].fmt, 1, maxw - 2) \o <<".", ".">>

\* C3 witness: an 8-character value printed as 'abc..' under a max width of 5.
C3_Witness ==
    \E k \in 1..Len(tout) :
        /\ tout[k].col \in DOMAIN max_column_widths
        /\ max_column_widths[tout[k].col] = 5
        /\ tout[k].raw = LongStr
        /\ tout[k].printed = <<"a", "b", "c", ".", ".">>

\* the alignment C4 gives a cell: right for an integer or a float, and for a
\* non-null value of a `_time` column; booleans, strings and nulls left
ClaimedAlign(col, raw) ==
    IF raw.t \in {"int", "float", "hugefloat"} \/ (EndsWithTime(col) /\ raw.t # "none")
    THEN ">" ELSE ""

\* C4 as stated: a cell is printed right-aligned exactly when its raw value is
\* an integer or a float, or its column ends in `_time` and the value is not
\* null; every other cell, a boolean's included, is printed left-aligned.
C4_RightAlignedIffNumberOrTime ==
    \A k \in 1..Len(tout) :
        /\ tout[k].align = ClaimedAlign(tout[k].col, tout[k].raw)
        /\ tout[k].printed =
              Pad(tout[k].text, ClaimedAlign(tout[k].col, tout[k].raw), colwidths[tout[k].col])

Yes == StrVal(<<"y", "e", "s">>)
No == StrVal(<<"n", "o">>)
FormatDone == fpc = "done" /\ fop = "format"
FormatTimeDone == fpc = "done" /\ fop = "format_time"

\* C5 as stated: in every column, whatever its suffix, format gives "yes" for
\* True, "no" for False and the empty string for None.
C5_BoolYesNoInEveryColumn ==
    FormatDone =>
        /\ fval = BoolVal(TRUE) => fres = Yes
        /\ fval = BoolVal(FALSE) => fres = No
        /\ fval = NoneVal => fres = StrVal(<<>>)

\* C5 amended: in every column that does not end in `_time`, format gives
\* "yes" for True and "no" for False; in every column it gives the empty
\* string for None.
C5_BoolYesNoOutsideTimeColumns ==
    FormatDone =>
        /\ (fval = BoolVal(TRUE) /\ ~EndsWithTime(fcol)) => fres = Yes
        /\ (fval = BoolVal(FALSE) /\ ~EndsWithTime(fcol)) => fres = No
        /\ fval = NoneVal => fres = StrVal(<<>>)

\* C5 witness: True formatted as "yes" in the column 'times', whose name holds
\* 'time' without ending in `_time`.
C5_Witness == FormatDone /\ fcol = ColTimes /\ fval = BoolVal(TRUE) /\ fres = Yes

\* s is '<N><unit> ago', N a decimal integer
IsAgo(s, unit) ==
    /\ Len(s) >= 6
    /\ SubSeq(s, Len(s) - 4, Len(s)) = <<unit, " ", "a", "g", "o">>
    /\ \A k \in 1..(Len(s) - 5) :
          \/ \E d \in 1..10 : s[k] = Digits[d]
          \/ k = 1 /\ s[k] = "-" /\ Len(s) >= 7

\* C6: format_time(0) is the empty string; any other convertible timestamp,
\* elapsed = now - timestamp, gives '<N>h ago' when elapsed > 3600, '<N>m ago'
\* when 60 < elapsed <= 3600 ('60m ago' at exactly 3600) and '<N>s ago' when
\* elapsed <= 60, negative elapsed included.
C6_StrictTimeBuckets ==
    FormatTimeDone =>
        /\ fval = IntVal(0) => fres = StrVal(<<>>)
        /\ (fval.t \in {"int", "float", "bool"} /\ fval.n # 0) =>
              LET elapsed == fnow - fval.n
              IN  /\ fres.t = "str"
                  /\ elapsed > 3600 => IsAgo(fres.s, "h")
                  /\ (60 < elapsed /\ elapsed <= 3600) => IsAgo(fres.s, "m")
                  /\ elapsed <= 60 => IsAgo(fres.s, "s")
                  /\ elapsed = 3600 => fres.s = <<"6", "0", "m", " ", "a", "g", "o">>
                  /\ elapsed = -5 => fres.s = <<"-", "5", "s", " ", "a", "g", "o">>

\* C6 witness: a timestamp exactly 3600 s old formatted as '60m ago'.
C6_Witness ==
    /\ FormatTimeDone
    /\ fval.t = "int"
    /\ fnow - fval.n = 3600
    /\ fres = StrVal(<<"6", "0", "m", " ", "a", "g", "o">>)

RangeDone == rpc = "done"
\* rvalue parsed as a float that is a number
IsNumberText == rvalue.k = "num"
\* the value is under the set minimum / over the set maximum
UnderMin == rmin.k = "num" /\ rvalue.k = "num" /\ rvalue.v < rmin.v
OverMax == rmax.k = "num" /\ rvalue.k = "num" /\ rvalue.v > rmax.v
\* v satisfies min <= v <= max for each bound that is set
WithinBounds(v) ==
    /\ rmin.k = "num" => (v.k = "num" /\ rmin.v <= v.v)
    /\ rmax.k = "num" => (v.k = "num" /\ v.v <= rmax.v)

\* what C7 says of a call convert(value) whose text is a float
RangeContract ==
    /\ (~rclamp /\ (UnderMin \/ OverMax)) => rres.kind = "fail"
    /\ (rclamp /\ UnderMin) => rres = Returned(rmin)
    /\ (rclamp /\ OverMax) => rres = Returned(rmax)
    /\ rres.kind = "return" => WithinBounds(rres.value)
    /\ WithinBounds(rvalue) => rres = Returned(rvalue)

IsPrefix(p, x) == \E k \in 0..Len(x) : p = SubSeq(x, 1, k)
\* the registered names that start with cmd_name
Candidates == {x \in commands : IsPrefix(cmd_name, x)}

\* C8: get_command returns the command registered as cmd_name when there is
\* one, even when other names start with it; otherwise the only command whose
\* name starts with cmd_name; None when no name does; and when several do it
\* fails with 'Too many matches' listing them in sorted order.
C8_AbbreviationResolution ==
    gpc = "done" =>
        /\ cmd_name \in commands => (gres.kind = "command" /\ gres.name = cmd_name)
        /\ (cmd_name \notin commands /\ Cardinality(Candidates) = 1) =>
              (gres.kind = "command" /\ gres.name \in Candidates)
        /\ (cmd_name \notin commands /\ Candidates = {}) => gres.kind = "none"
        /\ (cmd_name \notin commands /\ Cardinality(Candidates) > 1) =>
              /\ gres.kind = "fail"
              /\ Len(gres.matches) = Cardinality(Candidates)
              /\ SeqRange(gres.matches) = Candidates
              /\ \A i \in 1..Len(gres.matches), j \in 1..Len(gres.matches) :
                    i < j => StrLess(gres.matches[i], gres.matches[j])

\* C8 witness: a registered name that other registered names start with is
\* resolved to its own command.
C8_Witness ==
    /\ gpc = "done"
    /\ cmd_name \in commands
    /\ Cardinality(Candidates) > 1
    /\ gres.kind = "command" /\ gres.name = cmd_name

\* the scope was entered: __enter__ returned
Entered == apc = "body" \/ (apc = "done" /\ amsg_ok)
OkPrinted == \E i \in 1..Len(aout) : aout[i] = OkEvent
ErrorCalled == \E i \in 1..Len(aout) : aout[i].fn = "error" /\ aout[i].arg \in ErrorMsgs

\* C9: once the scope is entered the label is the first thing printed; at the
\* exit ' OK' is printed exactly when the body raised nothing and error() was
\* never called; when the body raised, the exit prints ' EXCEPTION OCCURRED:
\* <exception>', never ' OK', and the exception propagates.
C9_ActionScopeMarkers ==
    /\ Entered =>
          /\ Len(aout) >= 1
          /\ \A i \in 1..Len(aout) : (aout[i] = ActionEvent) <=> (i = 1)
    /\ (Entered /\ apc = "body") => ~OkPrinted
    /\ (Entered /\ apc = "done") =>
          /\ OkPrinted <=> (~araised /\ ~ErrorCalled)
          /\ \A i \in 1..Len(aout) : aout[i] = OkEvent => i = Len(aout)
          /\ araised =>
                /\ aout[Len(aout)] = ExceptionEvent
                /\ apropagated
          /\ ~araised =>
                /\ ~apropagated
                /\ \A i \in 1..Len(aout) : aout[i] # ExceptionEvent

\* C9 witness: a body that called progress() and error() and then raised:
\* the exit printed the exception, no ' OK', and the exception propagated.
C9_Witness ==
    /\ apc = "done"
    /\ amsg_ok
    /\ araised
    /\ apropagated
    /\ ErrorCalled
    /\ \E i \in 1..Len(aout) : aout[i] = ProgressEvent
    /\ aout[Len(aout)] = ExceptionEvent
    /\ ~OkPrinted

\* C10 as stated: choice returns only after an integer k with
\* 1 <= k <= len(options) was entered, and returns the k-th option's value;
\* after any other integer, 0 and the negatives included, it returns nothing
\* and prompts again.
C10_ReturnsOnlyForListedNumber ==
    /\ cpc = "returned" =>
          LET k == selection[Len(selection)]
          IN  /\ 1 <= k /\ k <= Len(options)
              /\ cresult = options[k].value
    /\ (cpc = "prompt" /\ selection # <<>>) =>
          LET k == selection[Len(selection)]
          IN  ~(1 <= k /\ k <= Len(options))

====
